---- MODULE Spec2Model ----
(***************************************************************************)
(* conventional-changelog-writer: the release segmentation generator       *)
(* createChangelogAsyncGeneratorFromCommits and the helpers it drives      *)
(* (processCommit, generate), as a state machine.                          *)
(*                                                                         *)
(* JavaScript values are records carrying a "type" field, so that any two  *)
(* of them can be compared.                                                *)
(***************************************************************************)
EXTENDS Integers, Sequences, FiniteSets, TLC

\* Longest input (number of chunks) the main specification enumerates.
MaxLen == 3

\* Longest input the specification with fairness enumerates.
MaxLiveLen == 2

\* Most commits, and most notes, a grouping call is given.
MaxCommits == 3

\* Most segments of a dotted path.
MaxDepth == 3

\* Most property writes one call of a transform function makes.
MaxWrites == 2

\* Most entries of a field-map transform.
MaxEntries == 2

-----------------------------------------------------------------------------
(* JavaScript values *)

Undefined == [type |-> "undefined"]
Null == [type |-> "null"]

\* The falsy value a transform function returns to drop a commit.
FalsyValues == {Null}

Truthy(v) == v.type \notin {"undefined", "null"}

\* Value of an absent `version` property.
NoVersion == "undefined"

\* Strings semver.valid accepts, among those the model draws versions from.
SemverStrings == {"1.0.0", "1.0.1", "1.1.0", "2.0.0"}

semverValid(v) == v \in SemverStrings

\* An object chunk: a commit-like record.
Obj(i, ver) == [type |-> "object", id |-> i, version |-> ver]

\* A textual chunk: the JSON text of an object.
Text(o) == [type |-> "string", json |-> o]

\* keyCommit.version, as JavaScript reads it: a string has no such property.
VersionOf(k) == IF k.type = "object" THEN k.version ELSE NoVersion

-----------------------------------------------------------------------------
(* lib/util.js: processCommit *)

\* try { chunk = JSON.parse(chunk) } catch (e) {}: JSON text is replaced by
\* the parsed value; parsing an object throws and the chunk is kept.
JSONParse(chunk) == IF chunk.type = "string" THEN chunk.json ELSE chunk

\* cloneCommit: a structurally equal copy.
cloneCommit(commit) == commit

\* commit.raw = chunk
SetRaw(commit, raw) ==
  [type |-> "object", id |-> commit.id, version |-> commit.version, raw |-> raw]

\* What a function-form transform may return for the clone it is given:
\* the commit (kept), or a falsy value (dropped).
TransformReturns(clone) == {clone} \cup FalsyValues

\* processCommit(chunk, transform, context); `returned` is the value the
\* transform function returned (read only when transform is a function).
\* The default field map rewrites hash, header and committerDate only.
processCommit(chunk, transform, returned) ==
  LET decoded == JSONParse(chunk)
      clone   == cloneCommit(decoded)
  IN  IF transform = "function"
        THEN IF Truthy(returned) THEN SetRaw(returned, decoded) ELSE returned
        ELSE SetRaw(clone, decoded)

-----------------------------------------------------------------------------
(* lib/util.js: generate, reduced to what the release depends on: the      *)
(* commit list and the key commit handed to the renderer.                  *)

generate(commits, keyCommit) ==
  [type |-> "text", commits |-> commits, keyCommit |-> keyCommit]

-----------------------------------------------------------------------------
(* index.js: finalize and the generator's decisions *)

GenerateOnKinds == {"function", "string", "other"}
TransformKinds == {"function", "map"}

Options ==
  [reverse : BOOLEAN, doFlush : BOOLEAN, includeDetails : BOOLEAN,
   generateOn : GenerateOnKinds, transform : TransformKinds]

\* generateOn after finalize: the default predicate semverValid(commit.version),
\* the field-name shorthand ('version'), or () => false.
generateOn(kind, keyCommit) ==
  CASE kind = "function" -> semverValid(VersionOf(keyCommit))
    [] kind = "string"   -> VersionOf(keyCommit) # NoVersion
    [] OTHER             -> FALSE

\* Variants of keyCommit = commit || chunk without the fallback, and with
\* the raw chunk always.
KeyCommitOfCommitOnly(commit, chunk) == commit
KeyCommitOfChunkOnly(commit, chunk) == chunk

\* keyCommit = commit || chunk
KeyCommitOf(commit, chunk) == IF Truthy(commit) THEN commit ELSE chunk

\* if (commit) { commitsGroup.push(commit) }
Push(group, commit) == IF Truthy(commit) THEN Append(group, commit) ELSE group

\* Variant: the first-release test dropped.
ForwardYieldsOnDoFlush(firstRelease, doFlush) == doFlush

\* if (!firstRelease || finalOptions.doFlush)
ForwardYields(firstRelease, doFlush) == ~firstRelease \/ doFlush

\* Variant: && in place of ||.
SkipFinalFlushBoth(doFlush, reverse, neverGenerated) ==
  ~doFlush /\ (reverse /\ neverGenerated)

\* if (!finalOptions.doFlush && (finalOptions.reverse || neverGenerated)) return
SkipFinalFlush(doFlush, reverse, neverGenerated) ==
  ~doFlush /\ (reverse \/ neverGenerated)

\* Variant: the flag cleared only when the release is yielded.
NeverGeneratedUntilYield(yielded) == ~yielded

\* neverGenerated = false, at a boundary, before generate is called.
NeverGeneratedAtBoundary(yielded) == FALSE

\* Variants: the other of the two key commits in scope.
ReverseReleaseKeySaved(saved, key) == saved
ForwardReleaseKeyCurrent(saved, key) == key
FinalReleaseKeyCurrent(saved, key) == key

\* The key commit each call of generate is given.
ReverseReleaseKey(saved, key) == key
ForwardReleaseKey(saved, key) == saved
FinalReleaseKey(saved, key) == saved

\* Variant: includeDetails ignored.
EmissionTextOnly(includeDetails, result, key) == result

\* The value yielded for a rendered release.
Emission(includeDetails, result, key) ==
  IF includeDetails THEN [log |-> result, keyCommit |-> key] ELSE result

-----------------------------------------------------------------------------
(* State *)

VARIABLES
  input,          \* the chunks the commits iterable produces
  options,        \* finalOptions
  heap,           \* the objects in memory, by address
  pc,             \* where the generator stands
  requested,      \* the consumer has called next() and awaits its result
  pos,            \* number of chunks read from the input
  chunk, commit, keyCommit, commitsGroup, neverGenerated, result,
  savedKeyCommit, firstRelease,
  out,            \* the values delivered to the consumer, in order
  hist,           \* per chunk that reached generateOn: what was evaluated
  renders,        \* the completed calls of generate, in order
  failure         \* what made the generator throw: "none" while it has not

vars == <<input, options, heap, pc, requested, pos, chunk, commit, keyCommit,
          commitsGroup, neverGenerated, result, savedKeyCommit, firstRelease,
          out, hist, renders, failure>>

locals == <<chunk, commit, keyCommit, commitsGroup, neverGenerated, result,
            savedKeyCommit, firstRelease>>

ChunkKinds == {<<"1.0.0", FALSE>>, <<"not-semver", FALSE>>,
               <<NoVersion, FALSE>>, <<"1.0.0", TRUE>>}

MkChunk(i, kind) == IF kind[2] THEN Text(Obj(i, kind[1])) ELSE Obj(i, kind[1])

Inputs ==
  UNION { { [i \in 1..n |-> MkChunk(i, ks[i])] : ks \in [1..n -> ChunkKinds] }
          : n \in 0..MaxLen }

InitLocals ==
  /\ pc = "loop"
  /\ requested = FALSE
  /\ pos = 0
  /\ chunk = Undefined
  /\ commit = Undefined
  /\ keyCommit = Undefined
  /\ commitsGroup = <<>>
  /\ neverGenerated = TRUE
  /\ result = Undefined
  /\ savedKeyCommit = Undefined
  /\ firstRelease = TRUE
  /\ out = <<>>
  /\ hist = <<>>
  /\ renders = <<>>
  /\ failure = "none"
  /\ heap = <<>>

Init ==
  /\ input \in Inputs
  /\ options \in Options
  /\ InitLocals

-----------------------------------------------------------------------------
(* Actions *)

\* What a completed call of generate is remembered as.
Rendered(commits, key, emitted, final) ==
  [commits |-> commits, keyCommit |-> key, emitted |-> emitted,
   final |-> final, at |-> pos]

\* What an evaluation of generateOn is remembered as.
Evaluated(group, b) ==
  [chunk |-> chunk, commit |-> commit, keyCommit |-> keyCommit,
   group |-> group, boundary |-> b]

\* The consumer asks for the next item: it.next().
ConsumerNext ==
  /\ ~requested
  /\ pc \notin {"done", "error"}
  /\ requested' = TRUE
  /\ UNCHANGED <<input, options, heap, pc, pos, locals, out, hist, renders, failure>>

\* Variant: the iterator is not advanced, so the same chunk is read again.
ReadChunkAgain ==
  /\ pc = "loop" /\ requested /\ pos < Len(input)
  /\ chunk' = input[pos + 1]
  /\ commit' = processCommit(input[pos + 1], "map", Undefined)
  /\ keyCommit' = KeyCommitOf(commit', input[pos + 1])
  /\ pc' = "segment"
  /\ UNCHANGED <<pos, failure, input, options, heap, requested, commitsGroup,
                 neverGenerated, result, savedKeyCommit, firstRelease, out,
                 hist, renders>>

\* for await (chunk of commits): commit = await processCommit(...);
\* keyCommit = commit || chunk
ReadChunk ==
  /\ pc = "loop" /\ requested /\ pos < Len(input)
  /\ \E returned \in
        IF options.transform = "function"
          THEN TransformReturns(cloneCommit(JSONParse(input[pos + 1])))
          ELSE {Undefined} :
       LET c == processCommit(input[pos + 1], options.transform, returned)
       IN  /\ chunk' = input[pos + 1]
           /\ commit' = c
           /\ keyCommit' = KeyCommitOf(c, input[pos + 1])
  /\ pos' = pos + 1
  /\ pc' = "segment"
  /\ UNCHANGED <<failure, input, options, heap, requested, commitsGroup, neverGenerated,
                 result, savedKeyCommit, firstRelease, out, hist, renders>>

\* The transform function throws (or rejects): the generator's promise rejects.
TransformFails ==
  /\ pc = "loop" /\ requested /\ pos < Len(input)
  /\ options.transform = "function"
  /\ chunk' = input[pos + 1]
  /\ pos' = pos + 1
  /\ pc' = "error"
  /\ failure' = "transform"
  /\ requested' = FALSE
  /\ UNCHANGED <<input, options, heap, commit, keyCommit, commitsGroup,
                 neverGenerated, result, savedKeyCommit, firstRelease, out,
                 hist, renders>>

\* if (finalOptions.reverse) { push; if (generateOn(...)) { generate; yield } }
SegmentReverse ==
  /\ pc = "segment" /\ options.reverse
  /\ LET group == Push(commitsGroup, commit)
         b     == generateOn(options.generateOn, keyCommit)
         key   == ReverseReleaseKey(savedKeyCommit, keyCommit)
         text  == generate(group, key)
     IN  /\ commitsGroup' = group
         /\ hist' = Append(hist, Evaluated(group, b))
         /\ IF b
              THEN /\ neverGenerated' = NeverGeneratedAtBoundary(TRUE)
                   /\ result' = text
                   /\ renders' = Append(renders, Rendered(group, key, TRUE, FALSE))
                   /\ out' = Append(out, Emission(options.includeDetails, text, key))
                   /\ pc' = "yieldedReverse"
                   /\ requested' = FALSE
              ELSE /\ pc' = "loop"
                   /\ UNCHANGED <<neverGenerated, result, renders, out, requested>>
  /\ UNCHANGED <<failure, input, options, heap, pos, chunk, commit, keyCommit,
                 savedKeyCommit, firstRelease>>

\* Variant: the generator runs on after its yield without being asked.
ResumeReverseUnasked ==
  /\ pc = "yieldedReverse"
  /\ commitsGroup' = <<>>
  /\ pc' = "loop"
  /\ UNCHANGED <<failure, input, options, heap, requested, pos, chunk, commit, keyCommit,
                 neverGenerated, result, savedKeyCommit, firstRelease, out,
                 hist, renders>>

\* The consumer resumed the generator after a reverse-mode yield:
\* commitsGroup = []
ResumeReverse ==
  /\ pc = "yieldedReverse" /\ requested
  /\ commitsGroup' = <<>>
  /\ pc' = "loop"
  /\ UNCHANGED <<failure, input, options, heap, requested, pos, chunk, commit, keyCommit,
                 neverGenerated, result, savedKeyCommit, firstRelease, out,
                 hist, renders>>

\* else { if (generateOn(...)) { generate; maybe yield; close } push }
SegmentForward ==
  /\ pc = "segment" /\ ~options.reverse
  /\ LET b    == generateOn(options.generateOn, keyCommit)
         key  == ForwardReleaseKey(savedKeyCommit, keyCommit)
         text == generate(commitsGroup, key)
         emit == ForwardYields(firstRelease, options.doFlush)
     IN  /\ hist' = Append(hist, Evaluated(commitsGroup, b))
         /\ IF b
              THEN /\ neverGenerated' = NeverGeneratedAtBoundary(emit)
                   /\ result' = text
                   /\ renders' = Append(renders, Rendered(commitsGroup, key, emit, FALSE))
                   /\ IF emit
                        THEN /\ out' = Append(out, Emission(options.includeDetails, text, key))
                             /\ pc' = "yieldedForward"
                             /\ requested' = FALSE
                             /\ UNCHANGED <<firstRelease, commitsGroup, savedKeyCommit>>
                        ELSE /\ firstRelease' = FALSE
                             /\ commitsGroup' = Push(<<>>, commit)
                             /\ savedKeyCommit' = keyCommit
                             /\ pc' = "loop"
                             /\ UNCHANGED <<out, requested>>
              ELSE /\ commitsGroup' = Push(commitsGroup, commit)
                   /\ pc' = "loop"
                   /\ UNCHANGED <<neverGenerated, result, renders, out,
                                  requested, firstRelease, savedKeyCommit>>
  /\ UNCHANGED <<failure, input, options, heap, pos, chunk, commit, keyCommit>>

\* The consumer resumed the generator after a forward-mode yield:
\* firstRelease = false; commitsGroup = []; savedKeyCommit = keyCommit; push
ResumeForward ==
  /\ pc = "yieldedForward" /\ requested
  /\ firstRelease' = FALSE
  /\ commitsGroup' = Push(<<>>, commit)
  /\ savedKeyCommit' = keyCommit
  /\ pc' = "loop"
  /\ UNCHANGED <<failure, input, options, heap, requested, pos, chunk, commit, keyCommit,
                 neverGenerated, result, out, hist, renders>>

\* finalizeContext throws inside generate while a boundary is being closed.
GenerateFailsAtBoundary ==
  /\ pc = "segment"
  /\ generateOn(options.generateOn, keyCommit)
  /\ LET group == IF options.reverse THEN Push(commitsGroup, commit)
                  ELSE commitsGroup
     IN  /\ commitsGroup' = group
         /\ hist' = Append(hist, Evaluated(group, TRUE))
  /\ neverGenerated' = FALSE
  /\ pc' = "error"
  /\ failure' = "boundary"
  /\ requested' = FALSE
  /\ UNCHANGED <<input, options, heap, pos, chunk, commit, keyCommit, result,
                 savedKeyCommit, firstRelease, out, renders>>

\* The input is exhausted: return, or render and yield the remainder.
EndOfInput ==
  /\ pc = "loop" /\ requested /\ pos = Len(input)
  /\ LET key  == FinalReleaseKey(savedKeyCommit, keyCommit)
         text == generate(commitsGroup, key)
     IN  IF SkipFinalFlush(options.doFlush, options.reverse, neverGenerated)
           THEN /\ pc' = "done"
                /\ UNCHANGED <<result, renders, out>>
           ELSE /\ result' = text
                /\ renders' = Append(renders, Rendered(commitsGroup, key, TRUE, TRUE))
                /\ out' = Append(out, Emission(options.includeDetails, text, key))
                /\ pc' = "yieldedFinal"
  /\ requested' = FALSE
  /\ UNCHANGED <<failure, input, options, heap, pos, chunk, commit, keyCommit,
                 commitsGroup, neverGenerated, savedKeyCommit, firstRelease,
                 hist>>

\* finalizeContext throws inside generate during the final flush.
GenerateFailsAtFlush ==
  /\ pc = "loop" /\ requested /\ pos = Len(input)
  /\ ~SkipFinalFlush(options.doFlush, options.reverse, neverGenerated)
  /\ pc' = "error"
  /\ failure' = "flush"
  /\ requested' = FALSE
  /\ UNCHANGED <<input, options, heap, pos, locals, out, hist, renders>>

\* The consumer resumed the generator after the final yield: it returns.
ResumeFinal ==
  /\ pc = "yieldedFinal" /\ requested
  /\ pc' = "done"
  /\ requested' = FALSE
  /\ UNCHANGED <<input, options, heap, pos, locals, out, hist, renders, failure>>

Next ==
  \/ ConsumerNext
  \/ ReadChunk
  \/ TransformFails
  \/ SegmentReverse
  \/ ResumeReverse
  \/ SegmentForward
  \/ ResumeForward
  \/ GenerateFailsAtBoundary
  \/ EndOfInput
  \/ GenerateFailsAtFlush
  \/ ResumeFinal

Spec == Init /\ [][Next]_vars

\* The consumer keeps asking and the event loop keeps running the generator:
\* a step that can be taken is eventually taken.
LiveInputs ==
  UNION { { [i \in 1..n |-> MkChunk(i, ks[i])] : ks \in [1..n -> ChunkKinds] }
          : n \in 0..MaxLiveLen }

InitLive ==
  /\ input \in LiveInputs
  /\ options \in Options
  /\ InitLocals

SpecLive == InitLive /\ [][Next]_vars /\ WF_vars(Next)

\* The two inputs the specification's examples run: newest first with every
\* chunk a version, and oldest first with two versions among five chunks.
ReverseExample == <<Obj(1, "2.0.0"), Obj(2, "1.0.0")>>
ForwardExample ==
  <<Obj(1, "1.0.0"), Obj(2, NoVersion), Obj(3, NoVersion), Obj(4, "1.1.0"),
    Obj(5, NoVersion)>>

InitExamples ==
  /\ input \in {ReverseExample, ForwardExample}
  /\ options \in Options
  /\ InitLocals

SpecExamples == InitExamples /\ [][Next]_vars

-----------------------------------------------------------------------------
(* Reading the history *)

Max(S) == CHOOSE x \in S : \A y \in S : y <= x

\* The least element of S, 0 if S is empty.
Min1(S) == IF S = {} THEN 0 ELSE CHOOSE x \in S : \A y \in S : x <= y

\* Indices of the chunks on which generateOn returned true.
Boundaries(h) == {i \in 1..Len(h) : h[i].boundary}

\* The last boundary before chunk i, 0 if there is none.
PrevBoundary(h, i) ==
  LET S == {j \in Boundaries(h) : j < i} IN IF S = {} THEN 0 ELSE Max(S)

\* The last boundary of the history, 0 if there is none.
LastBoundary(h) == PrevBoundary(h, Len(h) + 1)

\* The truthy normalized commits of chunks a..b, in input order.
RECURSIVE KeptCommits(_, _, _)
KeptCommits(h, a, b) ==
  IF a > b THEN <<>>
  ELSE (IF Truthy(h[a].commit) THEN <<h[a].commit>> ELSE <<>>)
       \o KeptCommits(h, a + 1, b)

\* The rendered release an emission carries.
ReleaseOf(e) == IF options.includeDetails THEN e.log ELSE e

\* The renders made at a boundary, and those made at the end of the input.
BoundaryRenders == SelectSeq(renders, LAMBDA r : ~r.final)
FinalRenders == SelectSeq(renders, LAMBDA r : r.final)

\* The generate call made for the boundary at chunk i has completed.
RenderedAt(i) == \E r \in 1..Len(renders) : ~renders[r].final /\ renders[r].at = i

\* The boundary at chunk i is the one whose generate call threw.
FailedAt(i) == failure = "boundary" /\ i = Len(hist)

-----------------------------------------------------------------------------
(* Claims *)

\* C1: forward mode: the release rendered at a boundary chunk holds exactly
\* the truthy normalized commits from the previous boundary chunk (inclusive,
\* or from the start of the input) up to but excluding the boundary chunk, in
\* input order, and is keyed by the previous boundary's key commit (undefined
\* if there was none); the boundary chunk's own commit opens the next release.
C1_ForwardRelease ==
  ~options.reverse =>
    /\ \A i \in Boundaries(hist) : ~FailedAt(i) => RenderedAt(i)
    /\ \A r \in 1..Len(renders) : ~renders[r].final =>
         LET i == renders[r].at
             p == PrevBoundary(hist, i)
         IN  /\ i \in Boundaries(hist)
             /\ renders[r].commits =
                  KeptCommits(hist, IF p = 0 THEN 1 ELSE p, i - 1)
             /\ renders[r].keyCommit =
                  IF p = 0 THEN Undefined ELSE hist[p].keyCommit
    /\ pc = "loop" =>
         LET p == LastBoundary(hist)
         IN  /\ commitsGroup = KeptCommits(hist, IF p = 0 THEN 1 ELSE p, Len(hist))
             /\ p # 0 /\ Truthy(hist[p].commit) =>
                  commitsGroup # <<>> /\ Head(commitsGroup) = hist[p].commit

\* A second forward release was rendered: it holds the first boundary's commit
\* and a later one, and is keyed by the first boundary.
C1_Witness ==
  /\ ~options.reverse
  /\ \E r \in 1..Len(renders) :
       /\ ~renders[r].final
       /\ Len(renders[r].commits) >= 2
       /\ renders[r].keyCommit # Undefined

\* C2: reverse mode: every boundary emits a release, whatever doFlush and
\* whether or not it is the first; the release holds the truthy normalized
\* commits read after the previous boundary up to and including the boundary
\* chunk, is keyed by the boundary chunk's own key commit, and commitsGroup is
\* empty once the generator moves on.
C2_ReverseRelease ==
  options.reverse =>
    /\ \A i \in Boundaries(hist) : ~FailedAt(i) => RenderedAt(i)
    /\ \A r \in 1..Len(renders) : ~renders[r].final =>
         LET i == renders[r].at
             p == PrevBoundary(hist, i)
         IN  /\ i \in Boundaries(hist)
             /\ renders[r].emitted
             /\ Len(out) >= r
             /\ ReleaseOf(out[r]) =
                  generate(KeptCommits(hist, p + 1, i), hist[i].keyCommit)
    /\ pc = "loop" /\ Len(hist) \in Boundaries(hist) => commitsGroup = <<>>

\* A reverse release with two commits was emitted with doFlush off, and the
\* generator has moved on.
C2_Witness ==
  /\ options.reverse /\ ~options.doFlush
  /\ pc = "loop"
  /\ Len(hist) \in Boundaries(hist)
  /\ Len(out) >= 1
  /\ Len(ReleaseOf(out[Len(out)]).commits) >= 2

\* C3: forward mode with doFlush off: the release closed by the first boundary
\* is rendered but not emitted, every later closure is emitted, the trailing
\* remainder is emitted at the end of the input once a boundary has fired, and
\* the suppressed closure still leaves commitsGroup reset (holding only the
\* boundary's own commit) and savedKeyCommit set to the boundary's key commit.
C3_SuppressedFirstRelease ==
  ~options.reverse /\ ~options.doFlush =>
    /\ \A r \in 1..Len(renders) :
         /\ renders[r].emitted <=> r # 1
         /\ r = 1 => ~renders[r].final /\ renders[r].at = Min1(Boundaries(hist))
    /\ Len(out) = IF renders = <<>> THEN 0 ELSE Len(renders) - 1
    /\ \A k \in 1..Len(out) :
         ReleaseOf(out[k]) = generate(renders[k + 1].commits, renders[k + 1].keyCommit)
    /\ pc = "done" /\ Boundaries(hist) # {} =>
         /\ renders[Len(renders)].final
         /\ ReleaseOf(out[Len(out)]).commits =
              KeptCommits(hist, LastBoundary(hist), Len(hist))
    /\ pc = "loop" /\ Len(renders) = 1 /\ Len(hist) \in Boundaries(hist) =>
         /\ out = <<>>
         /\ commitsGroup = Push(<<>>, hist[Len(hist)].commit)
         /\ savedKeyCommit = hist[Len(hist)].keyCommit

\* The first release was suppressed, a second closure was emitted, and the
\* run ended with the trailing remainder emitted.
C3_Witness ==
  /\ ~options.reverse /\ ~options.doFlush
  /\ pc = "done"
  /\ Len(renders) = 3
  /\ Len(out) = 2
  /\ ~renders[1].emitted

\* C4: at the end of the input nothing more is emitted if and only if doFlush
\* is off and (the mode is reverse or no boundary fired); otherwise exactly one
\* more release is emitted, holding the commitsGroup of that moment, and the
\* generator finishes.
C4_FinalFlush ==
  pc \in {"yieldedFinal", "done"} =>
    LET skip == ~options.doFlush /\ (options.reverse \/ Boundaries(hist) = {})
    IN  /\ pos = Len(input)
        /\ Len(out) = Len(SelectSeq(BoundaryRenders, LAMBDA r : r.emitted))
                      + Len(FinalRenders)
        /\ IF skip
             THEN FinalRenders = <<>> /\ pc = "done"
             ELSE /\ Len(FinalRenders) = 1
                  /\ renders[Len(renders)].final
                  /\ ReleaseOf(out[Len(out)]).commits = commitsGroup
                  /\ ReleaseOf(out[Len(out)]) = result

\* Both outcomes of the end of the input are reached: a run that finished
\* after emitting an empty remainder.
C4_Witness ==
  /\ pc = "done"
  /\ Len(input) >= 1
  /\ FinalRenders # <<>>
  /\ ReleaseOf(out[Len(out)]).commits = <<>>

\* C5 as stated: in both modes a final release emitted after some boundary
\* fired is keyed by the key commit of the last boundary that fired.
C5_FinalKeyedByLastBoundary ==
  FinalRenders # <<>> /\ Boundaries(hist) # {} =>
    ReleaseOf(out[Len(out)]).keyCommit = hist[LastBoundary(hist)].keyCommit

\* C5, amended: in forward mode a final release emitted after some boundary
\* fired is keyed by the key commit of the last boundary that fired; in
\* reverse mode savedKeyCommit is never assigned and the final release is
\* keyed by undefined, whether or not a boundary fired.
C5_FinalKey ==
  FinalRenders # <<>> =>
    ReleaseOf(out[Len(out)]).keyCommit =
      IF ~options.reverse /\ Boundaries(hist) # {}
        THEN hist[LastBoundary(hist)].keyCommit
        ELSE Undefined

\* A reverse run emitted its final release after a boundary had fired and a
\* further commit was read.
C5_Witness ==
  /\ options.reverse
  /\ FinalRenders # <<>>
  /\ Boundaries(hist) # {}
  /\ ReleaseOf(out[Len(out)]).commits # <<>>

\* The renders that were yielded, in order.
EmittedRenders == SelectSeq(renders, LAMBDA r : r.emitted)

\* C6 as stated: with includeDetails every emission is a record with exactly
\* the fields text and keyCommit.
C6_DetailsHaveTextField ==
  options.includeDetails =>
    \A k \in 1..Len(out) : DOMAIN out[k] = {"text", "keyCommit"}

\* C6, amended: with includeDetails every emission (boundary emissions in
\* either mode and the final flush) is a record with exactly the fields log
\* (the rendered release text) and keyCommit (the key commit that release was
\* rendered with); without includeDetails every emission is the rendered text
\* alone.
C6_EmissionShape ==
  /\ Len(out) = Len(EmittedRenders)
  /\ \A k \in 1..Len(out) :
       LET r    == EmittedRenders[k]
           text == generate(r.commits, r.keyCommit)
       IN  IF options.includeDetails
             THEN /\ DOMAIN out[k] = {"log", "keyCommit"}
                  /\ out[k].log = text
                  /\ out[k].keyCommit = r.keyCommit
             ELSE out[k] = text

\* With includeDetails a boundary release keyed by a commit and the final
\* release have both been emitted.
C6_Witness ==
  /\ options.includeDetails
  /\ Len(out) >= 2
  /\ FinalRenders # <<>>
  /\ \E r \in 1..Len(renders) :
       ~renders[r].final /\ renders[r].emitted /\ renders[r].keyCommit # Undefined

\* Every chunk of the input carries a valid version.
AllVersions == \A i \in 1..Len(input) : semverValid(VersionOf(JSONParse(input[i])))

\* Reverse mode, otherwise the default options, run to the end without failure.
ReverseDefaultsDone ==
  /\ options.reverse /\ options.doFlush /\ ~options.includeDetails
  /\ options.generateOn = "function" /\ options.transform = "map"
  /\ pc = "done"

\* One release per chunk, keyed by the chunk's commit and holding only it.
OwnReleases ==
  \A i \in 1..Len(input) :
    /\ hist[i].chunk = input[i]
    /\ Truthy(hist[i].commit)
    /\ out[i] = generate(<<hist[i].commit>>, hist[i].commit)

\* C7 as stated: reverse mode, default options, every chunk a version: exactly
\* one release per chunk and no other emission.
C7_OneReleasePerChunkOnly ==
  ReverseDefaultsDone /\ AllVersions =>
    /\ Len(out) = Len(input)
    /\ OwnReleases

\* C7, amended: reverse mode, default options, every chunk a version: the
\* generator yields one release per chunk, each keyed by its own commit and
\* holding exactly that commit, followed by exactly one more emission, the
\* end-of-input flush, which holds no commit and is keyed by undefined.
C7_OneReleasePerChunkThenFlush ==
  ReverseDefaultsDone /\ AllVersions =>
    /\ Len(out) = Len(input) + 1
    /\ OwnReleases
    /\ out[Len(out)] = generate(<<>>, Undefined)

\* The two-version reverse input was run to the end.
C7_Witness ==
  /\ ReverseDefaultsDone /\ AllVersions
  /\ Len(input) = 2

\* Forward mode, otherwise the default options, on the five-chunk example,
\* run to the end without failure.
ForwardExampleDone ==
  /\ ~options.reverse /\ options.doFlush /\ ~options.includeDetails
  /\ options.generateOn = "function" /\ options.transform = "map"
  /\ input = ForwardExample
  /\ pc = "done"

\* C8 as stated: three emissions; the first keyed at the 1.0.0 commit with no
\* commits, the second keyed at the 1.1.0 commit holding the two commits
\* between the versions, the third the final flush keyed at the 1.1.0 commit.
C8_ExampleAsStated ==
  ForwardExampleDone =>
    /\ Len(out) = 3
    /\ out[1].keyCommit = hist[1].commit
    /\ out[1].commits = <<>>
    /\ out[2].keyCommit = hist[4].commit
    /\ out[2].commits = <<hist[2].commit, hist[3].commit>>
    /\ out[3].keyCommit = hist[4].commit

\* C8, amended: three emissions; the first is keyed by undefined and holds no
\* commits, the second is keyed at the 1.0.0 commit and holds the 1.0.0 commit
\* and the two commits after it, the third is the end-of-input flush keyed at
\* the 1.1.0 commit and holds the 1.1.0 commit and the commit after it.
C8_Example ==
  ForwardExampleDone =>
    /\ \A i \in 1..5 : hist[i].chunk = ForwardExample[i] /\ Truthy(hist[i].commit)
    /\ Len(out) = 3
    /\ out[1] = generate(<<>>, Undefined)
    /\ out[2] = generate(<<hist[1].commit, hist[2].commit, hist[3].commit>>,
                         hist[1].commit)
    /\ out[3] = generate(<<hist[4].commit, hist[5].commit>>, hist[4].commit)

\* The forward example was run to the end.
C8_Witness == ForwardExampleDone /\ Len(out) = 3

\* The id of the chunk a commit was normalized from.
Origin(c) == c.id

\* The commits held anywhere: in the open group or in a rendered release.
HeldCommits ==
  {commitsGroup[k] : k \in 1..Len(commitsGroup)}
  \cup UNION {{renders[r].commits[k] : k \in 1..Len(renders[r].commits)}
              : r \in 1..Len(renders)}

\* C9: a chunk whose function-form transform returned a falsy value adds
\* nothing to commitsGroup in either mode, yet generateOn is evaluated for it
\* with the raw chunk as key commit; when it holds the boundary fires as for a
\* kept commit: in forward mode the raw chunk becomes savedKeyCommit, in
\* reverse mode the raw chunk keys the emitted release.
C9_DroppedCommit ==
  /\ pc \notin {"segment", "error"} => Len(hist) = pos
  /\ \A i \in 1..Len(hist) : ~Truthy(hist[i].commit) =>
       /\ hist[i].chunk = input[i]
       /\ hist[i].keyCommit = input[i]
       /\ hist[i].boundary = generateOn(options.generateOn, input[i])
       /\ \A c \in HeldCommits : Origin(c) # i
       /\ hist[i].boundary /\ ~FailedAt(i) =>
            /\ RenderedAt(i)
            /\ options.reverse =>
                 \E k \in 1..Len(out) :
                   /\ renders[k].at = i
                   /\ renders[k].keyCommit = input[i]
                   /\ ReleaseOf(out[k]).keyCommit = input[i]
            /\ ~options.reverse /\ i = LastBoundary(hist)
                 /\ pc \in {"loop", "yieldedFinal", "done"} =>
                 savedKeyCommit = input[i]

\* A dropped chunk closed a release in forward mode and became savedKeyCommit.
C9_Witness ==
  /\ ~options.reverse
  /\ pc = "loop"
  /\ \E i \in 1..Len(hist) :
       /\ ~Truthy(hist[i].commit)
       /\ hist[i].boundary
       /\ savedKeyCommit = input[i]

\* The releases a run without failure emits while it processes the chunks
\* h[1..i]: one per boundary, except the suppressed first forward release.
RECURSIVE ExpectedReleases(_, _)
ExpectedReleases(h, i) ==
  IF i = 0 THEN <<>>
  ELSE LET p == PrevBoundary(h, i)
           release ==
             IF options.reverse
               THEN generate(KeptCommits(h, p + 1, i), h[i].keyCommit)
               ELSE generate(KeptCommits(h, IF p = 0 THEN 1 ELSE p, i - 1),
                             IF p = 0 THEN Undefined ELSE h[p].keyCommit)
           emitted == options.reverse \/ options.doFlush \/ p # 0
       IN  ExpectedReleases(h, i - 1)
           \o (IF h[i].boundary /\ emitted THEN <<release>> ELSE <<>>)

\* C10: when a transform function or finalizeContext fails, the generator
\* ends in an error state: the failure reaches the consumer, no release is
\* emitted for the boundary in flight, nothing is emitted or read afterwards,
\* and the releases emitted before are exactly those of a run without failure
\* up to that point.
C10_Failure ==
  /\ pc = "error" <=> failure # "none"
  /\ pc = "error" =>
       /\ ~requested
       /\ ~ENABLED Next
       /\ failure = "transform" => options.transform = "function" /\ Len(hist) = pos - 1
       /\ failure = "boundary" => Len(hist) = pos /\ ~RenderedAt(pos)
       /\ failure = "flush" => Len(hist) = pos /\ pos = Len(input) /\ FinalRenders = <<>>
       /\ [k \in 1..Len(out) |-> ReleaseOf(out[k])] =
            ExpectedReleases(hist, IF failure = "boundary" THEN Len(hist) - 1
                                   ELSE Len(hist))

\* finalizeContext failed at a boundary after an earlier release was emitted.
C10_Witness ==
  /\ pc = "error"
  /\ failure = "boundary"
  /\ Len(out) >= 1

\* C11: backpressure: while the consumer has not asked for the next item the
\* generator reads no chunk, calls neither transform nor generateOn nor
\* finalizeContext, renders and emits nothing, and its state (commitsGroup,
\* savedKeyCommit, firstRelease, neverGenerated) does not change; so if the
\* consumer never asks again, it never changes again.
C11_Backpressure ==
  [][~requested =>
       /\ pos' = pos
       /\ locals' = locals
       /\ hist' = hist
       /\ renders' = renders
       /\ out' = out
       /\ pc' = pc
       /\ failure' = failure]_vars

\* A release has been emitted, chunks remain, and the consumer has not asked.
C11_Witness ==
  /\ ~requested
  /\ pc \in {"yieldedForward", "yieldedReverse"}
  /\ out # <<>>
  /\ pos < Len(input)

\* C12: every run over a finite input that is consumed to the end terminates
\* (in "done" when nothing fails); there is at most one emission per chunk
\* read plus one final flush, so at most n + 1 for n chunks; chunks are read
\* one at a time, in order, each once.
C12_FiniteRun ==
  /\ [](/\ pos <= Len(input)
        /\ Len(hist) <= pos
        /\ \A i \in 1..Len(hist) : hist[i].chunk = input[i]
        /\ Len(out) <= pos + Len(FinalRenders)
        /\ Len(FinalRenders) <= 1
        /\ Len(out) <= Len(input) + 1
        /\ pc = "done" => pos = Len(input) /\ Len(hist) = Len(input)
        /\ pc = "error" => failure # "none")
  /\ [][pos' = pos \/ (pos' = pos + 1 /\ chunk' = input[pos'])]_vars
  /\ <>(pc \in {"done", "error"})

\* A run over two chunks ended without failure after three emissions.
C12_Witness ==
  /\ pc = "done"
  /\ Len(input) = 2
  /\ Len(out) = 3

\* C18 as stated: neverGenerated is true in exactly the states in which no
\* release has yet been emitted to the consumer.
C18_TrueUntilFirstEmission == neverGenerated <=> out = <<>>

\* C18, amended: neverGenerated is true in exactly the states in which no
\* boundary has fired: it becomes false when generateOn first returns true,
\* before the release is rendered, and so is already false after a forward
\* first closure whose emission doFlush=false suppressed; the final flush
\* leaves it as it is.
C18_TrueUntilFirstBoundary ==
  /\ neverGenerated <=> Boundaries(hist) = {}
  /\ ~options.reverse /\ ~options.doFlush /\ Len(renders) >= 1 => ~neverGenerated

\* The first forward closure was suppressed: nothing was emitted, and the flag
\* is down.
C18_Witness ==
  /\ ~options.reverse /\ ~options.doFlush
  /\ Len(renders) = 1
  /\ out = <<>>
  /\ ~neverGenerated

\* The commit lists of the emitted releases, concatenated in emission order.
RECURSIVE EmittedCommits(_)
EmittedCommits(k) ==
  IF k = 0 THEN <<>> ELSE EmittedCommits(k - 1) \o ReleaseOf(out[k]).commits

\* C20: conservation and order: in a run consumed to the end, with doFlush
\* the commit lists of the emitted releases, concatenated in emission order,
\* are exactly the truthy normalized commits in input order; without doFlush
\* the only kept commits missing are, in forward mode, those before the first
\* boundary (all of them if no boundary fires) and, in reverse mode, those
\* after the last boundary.
C20_Conservation ==
  pc = "done" =>
    LET n     == Len(hist)
        first == Min1(Boundaries(hist))
        last  == LastBoundary(hist)
    IN  /\ n = Len(input)
        /\ EmittedCommits(Len(out)) =
             IF options.doFlush THEN KeptCommits(hist, 1, n)
             ELSE IF options.reverse THEN KeptCommits(hist, 1, last)
             ELSE IF first = 0 THEN <<>>
             ELSE KeptCommits(hist, first, n)

\* A forward run without doFlush ended: a kept commit before the first
\* boundary is missing, the commits from the boundary on were emitted.
C20_Witness ==
  /\ pc = "done"
  /\ ~options.reverse /\ ~options.doFlush
  /\ Min1(Boundaries(hist)) >= 2
  /\ KeptCommits(hist, 1, Min1(Boundaries(hist)) - 1) # <<>>
  /\ Len(EmittedCommits(Len(out))) >= 2

-----------------------------------------------------------------------------
(* Calls of the pure helpers. A call is one step: `input` holds the          *)
(* arguments, `result` what the call returned; the generator's other         *)
(* variables stay as they start.                                             *)

Idle ==
  /\ requested = FALSE
  /\ pos = 0
  /\ chunk = Undefined
  /\ commit = Undefined
  /\ keyCommit = Undefined
  /\ commitsGroup = <<>>
  /\ neverGenerated = TRUE
  /\ result = Undefined
  /\ savedKeyCommit = Undefined
  /\ firstRelease = TRUE
  /\ out = <<>>
  /\ hist = <<>>
  /\ renders = <<>>
  /\ failure = "none"
  /\ heap = <<>>

\* The call returns `value`.
Return(from, to, value) ==
  /\ pc = from
  /\ pc' = to
  /\ result' = value
  /\ UNCHANGED <<input, options, heap, requested, pos, chunk, commit, keyCommit,
                 commitsGroup, neverGenerated, savedKeyCommit, firstRelease,
                 out, hist, renders, failure>>

\* Primitive values, and objects as functions from property names to values.
Str(s) == [type |-> "str", val |-> s]
Bool(b) == [type |-> "bool", val |-> b]
Num(n) == [type |-> "num", val |-> n]

IsObject(v) == "type" \notin DOMAIN v

\* JavaScript truthiness.
JsTruthy(v) ==
  IF IsObject(v) THEN TRUE
  ELSE CASE v.type \in {"undefined", "null"} -> FALSE
         [] v.type = "bool" -> v.val
         [] v.type = "str"  -> v.val # ""
         [] v.type = "num"  -> v.val # 0
         [] OTHER -> TRUE

EmptyObject == [k \in {} |-> Undefined]

\* o[k]: undefined for a property the object does not have.
Prop(o, k) == IF IsObject(o) /\ k \in DOMAIN o THEN o[k] ELSE Undefined

\* { ...a, ...b }: spreading undefined adds nothing.
Spread(a, b) ==
  LET x == IF IsObject(a) THEN a ELSE EmptyObject
      y == IF IsObject(b) THEN b ELSE EmptyObject
  IN  [k \in DOMAIN x \cup DOMAIN y |-> IF k \in DOMAIN y THEN y[k] ELSE x[k]]

\* o with o[k] = v
Assign(o, k, v) == [x \in DOMAIN o \cup {k} |-> IF x = k THEN v ELSE o[x]]

-----------------------------------------------------------------------------
(* lib/util.js: generate, the render context *)

\* semver.patch of the valid versions in use.
semverPatch(v) == IF v = "1.0.1" THEN 1 ELSE 0

\* What getExtraContext returns: the computed groups.
ExtraContext ==
  [commitGroups |-> Str("computed commitGroups"),
   noteGroups |-> Str("computed noteGroups")]

\* Variant: the key commit spread first, the base context over it.
MergedContextKeyFirst(context, key) == Spread(Spread(key, context), ExtraContext)

\* context = { ...context, ...keyCommit, ...getExtraContext(...) }
MergedContext(context, key) == Spread(Spread(context, key), ExtraContext)

\* if (keyCommit && keyCommit.committerDate) context.date = keyCommit.committerDate
DatedContext(context, key) ==
  IF JsTruthy(key) /\ JsTruthy(Prop(key, "committerDate"))
    THEN Assign(context, "date", Prop(key, "committerDate"))
    ELSE context

\* if (context.version && semver.valid(context.version))
\*   context.isPatch = context.isPatch || semver.patch(context.version) !== 0
PatchedContext(context) ==
  LET version == Prop(context, "version")
  IN  IF JsTruthy(version) /\ semverValid(version.val)
        THEN Assign(context, "isPatch",
                    IF JsTruthy(Prop(context, "isPatch"))
                      THEN Prop(context, "isPatch")
                      ELSE Bool(semverPatch(version.val) # 0))
        ELSE context

\* The context generate hands to finalizeContext.
AssembledContext(context, key) ==
  PatchedContext(DatedContext(MergedContext(context, key), key))

\* What finalizeContext returns: the default hook returns the context, a
\* replacing hook returns a context of its own.
HookKinds == {"identity", "replace"}
HookContext == [hooked |-> Bool(TRUE)]
finalizeContext(hook, context) ==
  IF hook = "identity" THEN context ELSE HookContext

\* Objects with the given optional properties, each drawn from its values.
ObjectsOver(fields) ==
  UNION { [D -> UNION {fields[k] : k \in D}] : D \in SUBSET DOMAIN fields }

WellTyped(o, fields) == \A k \in DOMAIN o : o[k] \in fields[k]

BaseFields ==
  [version |-> {Str("1.0.0"), Str("1.0.1"), Str("next"), Str("")},
   isPatch |-> {Bool(TRUE), Bool(FALSE)},
   date |-> {Str("base date")},
   title |-> {Str("base title")},
   commitGroups |-> {Str("base commitGroups")}]

KeyFields ==
  [version |-> {Str("1.0.0"), Str("1.0.1")},
   isPatch |-> {Bool(TRUE), Bool(FALSE)},
   date |-> {Str("key date")},
   title |-> {Str("key title")},
   committerDate |-> {Str("2024-01-01"), Str("")}]

BaseContexts == {o \in ObjectsOver(BaseFields) : WellTyped(o, BaseFields)}
KeyCommits == {Undefined} \cup {o \in ObjectsOver(KeyFields) : WellTyped(o, KeyFields)}

InitGenerate ==
  /\ input \in [context : BaseContexts, keyCommit : KeyCommits, hook : HookKinds]
  /\ options = [ignoreReverted |-> TRUE]
  /\ pc = "generate"
  /\ Idle

\* generate(options, commits, context, keyCommit): the context given to the
\* hook, and the context the template is rendered with.
Generate ==
  LET context == AssembledContext(input.context, input.keyCommit)
  IN  Return("generate", "generated",
             [context |-> context,
              rendered |-> finalizeContext(input.hook, context)])

SpecGenerate == InitGenerate /\ [][Generate]_vars

\* The properties an object has.
Has(o, k) == IsObject(o) /\ k \in DOMAIN o

\* The key commit carries a truthy committerDate.
KeyDated(key) == Has(key, "committerDate") /\ JsTruthy(key["committerDate"])

\* The version the merged context carries is a valid semantic version.
VersionValid(context, key) ==
  LET v == IF Has(key, "version") THEN key["version"]
           ELSE Prop(context, "version")
  IN  JsTruthy(v) /\ semverValid(v.val)

\* The isPatch the base context or the key commit supplies, if any.
SuppliedIsPatch(context, key) ==
  IF Has(key, "isPatch") THEN key["isPatch"] ELSE Prop(context, "isPatch")

IsPatchSupplied(context, key) == Has(key, "isPatch") \/ Has(context, "isPatch")

\* C13: the render context, field by field: the computed commitGroups and
\* noteGroups override everything before them; date is the key commit's
\* committerDate when the key commit exists and that is truthy; otherwise a
\* field is the key commit's if it has it, else the base context's; isPatch is
\* written last, when the version is valid. What finalizeContext returns
\* replaces the whole context and is what is rendered. With no key commit only
\* the base fields and the computed fields are present.
C13_ContextPrecedence ==
  pc = "generated" =>
    LET base == input.context
        key  == input.keyCommit
        ctx  == result.context
    IN  /\ DOMAIN ctx =
             DOMAIN base
             \cup (IF IsObject(key) THEN DOMAIN key ELSE {})
             \cup {"commitGroups", "noteGroups"}
             \cup (IF KeyDated(key) THEN {"date"} ELSE {})
             \cup (IF VersionValid(base, key) THEN {"isPatch"} ELSE {})
        /\ \A f \in DOMAIN ctx :
             ctx[f] =
               CASE f \in {"commitGroups", "noteGroups"} -> ExtraContext[f]
                 [] f = "date" /\ KeyDated(key) -> key["committerDate"]
                 [] f = "isPatch" /\ VersionValid(base, key) ->
                      IF JsTruthy(SuppliedIsPatch(base, key))
                        THEN SuppliedIsPatch(base, key)
                        ELSE Bool(semverPatch(
                               (IF Has(key, "version") THEN key["version"]
                                ELSE base["version"]).val) # 0)
                 [] OTHER -> IF Has(key, f) THEN key[f] ELSE base[f]
        /\ result.rendered =
             IF input.hook = "identity" THEN ctx ELSE HookContext
        /\ ~IsObject(key) =>
             DOMAIN ctx \subseteq DOMAIN base \cup {"commitGroups", "noteGroups", "isPatch"}

\* A key commit overrode the base title, date and version, carried a
\* committerDate, and the base context supplied commitGroups of its own.
C13_Witness ==
  /\ pc = "generated"
  /\ Has(input.keyCommit, "title") /\ Has(input.context, "title")
  /\ Has(input.keyCommit, "date") /\ KeyDated(input.keyCommit)
  /\ Has(input.context, "commitGroups")
  /\ result.context["title"] = Str("key title")
  /\ result.context["date"] = Str("2024-01-01")

\* C14 as stated: isPatch is computed (true exactly for a non-zero patch) only
\* when the version is valid and isPatch was not supplied; a supplied isPatch,
\* false included, is left as supplied; with no valid version isPatch is
\* untouched.
C14_IsPatchKeptWhenSupplied ==
  pc = "generated" =>
    LET base == input.context
        key  == input.keyCommit
        ctx  == result.context
    IN  IF IsPatchSupplied(base, key)
          THEN Has(ctx, "isPatch") /\ ctx["isPatch"] = SuppliedIsPatch(base, key)
          ELSE IF VersionValid(base, key)
            THEN /\ Has(ctx, "isPatch")
                 /\ ctx["isPatch"] = Bool(semverPatch(ctx["version"].val) # 0)
            ELSE ~Has(ctx, "isPatch")

-----------------------------------------------------------------------------
(* lib/util.js: getCommitGroups and getNoteGroups *)

\* A call that threw a TypeError.
Throw == [type |-> "TypeError"]

Thrown(v) == ~IsObject(v) /\ v.type = "TypeError"

\* An array a call returned.
Array(items) == [type |-> "array", items |-> items]

\* The property names every object inherits from Object.prototype, among the
\* strings the model uses as keys.
InheritedKeys == {"constructor"}

\* Property names that are array indices: Object.entries lists them first, in
\* ascending numeric order, ahead of the other names in insertion order.
IndexKeys == {"1", "2"}
IndexOf(k) == IF k = "1" THEN 1 ELSE 2

\* The property name a value is converted to: a string is its own name, a
\* number its decimal form.
ToKey(v) ==
  IF v.type = "str" THEN v.val
  ELSE CASE v.val = 0 -> "0" [] v.val = 1 -> "1" [] OTHER -> "2"

\* const key = commit[groupBy] || ''
GroupKey(v) == IF JsTruthy(v) THEN ToKey(v) ELSE ""

\* a.localeCompare(b) on the strings the model sorts, as ranks.
CollationRank(str) ==
  CASE str = "1" -> 1 [] str = "2" -> 2 [] str = "a" -> 3 [] str = "b" -> 4
    [] str = "BREAKING CHANGE" -> 5 [] str = "BREAKING CHANGES" -> 6
    [] str = "c" -> 7 [] str = "constructor" -> 8 [] str = "false" -> 9
    [] str = "feat" -> 10 [] str = "fix" -> 11 [] OTHER -> 0

\* Array.prototype.sort with a comparator on the elements' ranks: a stable
\* sort, so an element lands after those of lower rank and the earlier ones
\* of its rank.
SortBy(seq, rank) ==
  LET before(i) == {j \in 1..Len(seq) :
                      \/ rank[j] < rank[i]
                      \/ rank[j] = rank[i] /\ j < i}
  IN  [k \in 1..Len(seq) |->
         seq[CHOOSE i \in 1..Len(seq) : Cardinality(before(i)) + 1 = k]]

\* The position of the entry named key in an object's own properties, 0 if
\* it has none.
OwnIndex(entries, key) ==
  LET S == {i \in 1..Len(entries) : entries[i].key = key}
  IN  IF S = {} THEN 0 ELSE CHOOSE i \in S : TRUE

\* commits.reduce((groups, commit) => ..., {}): the own properties of groups
\* in insertion order, or Throw: groups[key] of an inherited name is truthy
\* and has no push.
RECURSIVE CommitGroupsObj(_, _)
CommitGroupsObj(commits, n) ==
  IF n = 0 THEN [type |-> "object", entries |-> <<>>]
  ELSE LET groups == CommitGroupsObj(commits, n - 1)
           c      == commits[n]
           key    == GroupKey(c.type)
       IN  IF Thrown(groups) THEN Throw
           ELSE LET i == OwnIndex(groups.entries, key)
                IN  IF i # 0
                      THEN [groups EXCEPT !.entries[i].commits = Append(@, c)]
                    ELSE IF key \in InheritedKeys THEN Throw
                    ELSE [groups EXCEPT !.entries =
                            Append(@, [key |-> key, commits |-> <<c>>])]

\* Object.entries(obj): index names ascending, then the rest as inserted.
ObjectEntries(entries) ==
  LET indexed == SelectSeq(entries, LAMBDA e : e.key \in IndexKeys)
  IN  SortBy(indexed, [i \in 1..Len(indexed) |-> IndexOf(indexed[i].key)])
      \o SelectSeq(entries, LAMBDA e : e.key \notin IndexKeys)

\* functionify('header'), functionify('title'): compare the stringified field.
HeaderRank(commits) == [i \in 1..Len(commits) |-> CollationRank(commits[i].header)]
TitleRank(groups) ==
  [i \in 1..Len(groups) |->
     CollationRank(IF groups[i].title.type = "bool" THEN "false"
                   ELSE groups[i].title.val)]

\* getCommitGroups(groupBy, commits, groupsSort, commitsSort), the sorts
\* "none" or the field comparator.
getCommitGroups(commits, groupsSort, commitsSort) ==
  LET obj == CommitGroupsObj(commits, Len(commits))
  IN  IF Thrown(obj) THEN Throw
      ELSE LET entries == ObjectEntries(obj.entries)
               groups ==
                 [i \in 1..Len(entries) |->
                    [title |-> IF entries[i].key = "" THEN Bool(FALSE)
                               ELSE Str(entries[i].key),
                     commits |-> IF commitsSort = "none" THEN entries[i].commits
                                 ELSE SortBy(entries[i].commits,
                                             HeaderRank(entries[i].commits))]]
           IN  Array(IF groupsSort = "none" THEN groups
                     ELSE SortBy(groups, TitleRank(groups)))

\* notes.forEach(...): the groups in first-seen title order.
RECURSIVE NoteGroupsOf(_, _)
NoteGroupsOf(notes, n) ==
  IF n = 0 THEN <<>>
  ELSE LET groups == NoteGroupsOf(notes, n - 1)
           note   == notes[n]
           S      == {i \in 1..Len(groups) : groups[i].title = note.title}
       IN  IF S # {}
             THEN [i \in 1..Len(groups) |->
                     IF i \in S THEN [groups[i] EXCEPT !.notes = Append(@, note)]
                     ELSE groups[i]]
             ELSE Append(groups, [title |-> note.title, notes |-> <<note>>])

NoteTitleRank(groups) == [i \in 1..Len(groups) |-> CollationRank(groups[i].title.val)]
NoteTextRank(notes) == [i \in 1..Len(notes) |-> CollationRank(notes[i].text)]

\* getNoteGroups(notes, noteGroupsSort, notesSort)
getNoteGroups(notes, noteGroupsSort, notesSort) ==
  LET groups == NoteGroupsOf(notes, Len(notes))
      sorted == IF noteGroupsSort = "none" THEN groups
                ELSE SortBy(groups, NoteTitleRank(groups))
  IN  Array(IF notesSort = "none" THEN sorted
            ELSE [i \in 1..Len(sorted) |->
                    [sorted[i] EXCEPT !.notes = SortBy(@, NoteTextRank(@))]])

\* The values commit[groupBy] takes; an absent field reads as undefined.
TypeValues ==
  {Undefined, Null, Str(""), Num(0), Str("feat"), Str("fix"), Str("1"),
   Str("constructor")}

\* Later commits carry earlier headers, so that a sort by header reorders.
HeaderOf(i) == CASE i = 1 -> "c" [] i = 2 -> "b" [] OTHER -> "a"

CommitLists ==
  UNION { { [i \in 1..n |-> [id |-> i, type |-> ts[i], header |-> HeaderOf(i)]]
            : ts \in [1..n -> TypeValues] } : n \in 0..MaxCommits }

NoteTitles == {Str("BREAKING CHANGE"), Str("BREAKING CHANGES"), Str("1")}

NoteLists ==
  UNION { { [i \in 1..n |-> [id |-> i, title |-> ts[i], text |-> HeaderOf(i)]]
            : ts \in [1..n -> NoteTitles] } : n \in 0..MaxCommits }

SortKinds == {"none", "field"}

InitGroups ==
  /\ \/ /\ input \in [commits : CommitLists, groupsSort : SortKinds,
                      commitsSort : SortKinds]
        /\ pc = "getCommitGroups"
     \/ /\ input \in [notes : NoteLists, noteGroupsSort : SortKinds,
                      notesSort : SortKinds]
        /\ pc = "getNoteGroups"
  /\ options = [groupBy |-> "type"]
  /\ Idle

GetCommitGroups ==
  Return("getCommitGroups", "groupedCommits",
         getCommitGroups(input.commits, input.groupsSort, input.commitsSort))

GetNoteGroups ==
  Return("getNoteGroups", "groupedNotes",
         getNoteGroups(input.notes, input.noteGroupsSort, input.notesSort))

NextGroups == GetCommitGroups \/ GetNoteGroups

SpecGroups == InitGroups /\ [][NextGroups]_vars

\* The positions of the returned groups that hold, in the given field, the
\* input commit (or note) with identity id.
GroupsHolding(groups, field, id) ==
  {g \in 1..Len(groups) :
     \E k \in 1..Len(groups[g][field]) : groups[g][field][k].id = id}

\* How often the commit (or note) with identity id occurs in the groups.
Occurrences(groups, field, id) ==
  Cardinality({<<g, k>> \in (1..Len(groups)) \X (1..MaxCommits + 1) :
                 /\ k <= Len(groups[g][field])
                 /\ groups[g][field][k].id = id})

\* The earliest input position held by a group.
FirstSeen(members) ==
  CHOOSE i \in {members[k].id : k \in 1..Len(members)} :
    \A k \in 1..Len(members) : i <= members[k].id

\* The groups come in first-encounter order, their members in input order.
EncounterOrder(groups, field) ==
  /\ \A g, h \in 1..Len(groups) :
       g < h => FirstSeen(groups[g][field]) < FirstSeen(groups[h][field])
  /\ \A g \in 1..Len(groups) :
       \A k, l \in 1..Len(groups[g][field]) :
         k < l => groups[g][field][k].id < groups[g][field][l].id

\* C15 (as stated): getCommitGroups returns groups in which every input
\* commit occurs exactly once; a commit whose groupBy value is null or
\* undefined is in the group titled false, and a commit with any other value
\* is in the group titled with that value (key = commit[groupBy] ?? '').
C15_PartitionByField ==
  pc = "groupedCommits" =>
    /\ ~Thrown(result)
    /\ \A i \in 1..Len(input.commits) :
         /\ Occurrences(result.items, "commits", i) = 1
         /\ \A g \in GroupsHolding(result.items, "commits", i) :
              result.items[g].title =
                IF input.commits[i].type.type \in {"undefined", "null"}
                  THEN Bool(FALSE)
                  ELSE Str(ToKey(input.commits[i].type))

\* C19 (as stated): with no sort comparator, a returned list of commit
\* groups is in the order in which each key was first encountered, numeric
\* looking keys included, with each group's commits in input order; a
\* returned list of note groups is in first-seen title order with notes in
\* input order, and one group holds exactly the notes of one title.
C19_EncounterOrder ==
  /\ pc = "groupedCommits" /\ ~Thrown(result)
       /\ input.groupsSort = "none" /\ input.commitsSort = "none"
       => EncounterOrder(result.items, "commits")
  /\ pc = "groupedNotes"
       /\ input.noteGroupsSort = "none" /\ input.notesSort = "none"
       => /\ EncounterOrder(result.items, "notes")
          /\ \A i \in 1..Len(input.notes) :
               /\ Occurrences(result.items, "notes", i) = 1
               /\ \A g \in GroupsHolding(result.items, "notes", i) :
                    result.items[g].title = input.notes[i].title
          /\ \A g, h \in 1..Len(result.items) :
               result.items[g].title = result.items[h].title => g = h

-----------------------------------------------------------------------------
(* lib/immutable.js: get and set; a path is given as path.split('.') *)

Nullish(v) == ~IsObject(v) /\ v.type \in {"undefined", "null"}

\* parts.reduce((context, key) => context ? context[key] : context, context)
RECURSIVE get(_, _)
get(context, parts) ==
  IF parts = <<>> THEN context
  ELSE get(IF JsTruthy(context) THEN Prop(context, Head(parts)) ELSE context,
           Tail(parts))

\* set(context, path, value): context[key] is read only when segments remain,
\* and reading a property of undefined or null throws.
RECURSIVE set(_, _, _)
set(context, parts, value) ==
  IF parts = <<>> \/ Head(parts) = "" THEN context
  ELSE IF Tail(parts) = <<>>
    THEN Assign(Spread(EmptyObject, context), Head(parts), value)
  ELSE IF Nullish(context) THEN Throw
  ELSE LET inner == set(Prop(context, Head(parts)), Tail(parts), value)
       IN  IF Thrown(inner) THEN Throw
           ELSE Assign(Spread(EmptyObject, context), Head(parts), inner)

PathKeys == {"a", "b"}

Leaves == {Num(0), Num(1), Null}

\* Objects over PathKeys whose properties are drawn from values.
ObjectsOf(values) == UNION { [D -> values] : D \in SUBSET PathKeys }

Records == ObjectsOf(Leaves \cup ObjectsOf(Leaves))

Paths == UNION { [1..n -> PathKeys \cup {""}] : n \in 1..MaxDepth }

InitSet ==
  /\ input \in [record : Records, path : Paths,
                value : {Num(1), Undefined, [a |-> Num(1)]}]
  /\ options \in {[call |-> "set"], [call |-> "get"]}
  /\ pc = options.call
  /\ Idle

\* commit = set(commit, path, value)
Set ==
  /\ pc = "set"
  /\ commit' = set(input.record, input.path, input.value)
  /\ pc' = IF Thrown(commit') THEN "threw" ELSE "get"
  /\ UNCHANGED <<input, options, heap, requested, pos, chunk, keyCommit,
                 commitsGroup, neverGenerated, result, savedKeyCommit,
                 firstRelease, out, hist, renders, failure>>

\* value = get(commit, path), of the record set returned or of the input
Get ==
  /\ pc = "get"
  /\ Return("get", "gotten",
            get(IF options.call = "set" THEN commit ELSE input.record,
                input.path))

NextSet == Set \/ Get

SpecSet == InitSet /\ [][NextSet]_vars

HasEmptySegment(parts) == \E i \in 1..Len(parts) : parts[i] = ""

\* C16 (as stated): for every record, dotted path of any depth and value,
\* set returns (intermediate segments absent or not) and get of the result
\* on the same path is the value; a path with an empty segment makes set
\* return the record it was given.
C16_RoundTrip ==
  options.call = "set" =>
    /\ pc # "threw"
    /\ pc \in {"get", "gotten"} /\ HasEmptySegment(input.path)
         => commit = input.record
    /\ pc = "gotten" /\ ~HasEmptySegment(input.path) => result = input.value

-----------------------------------------------------------------------------
(* lib/util.js: processCommit on objects in memory. A value is a primitive  *)
(* or a reference to a cell of the heap; a cell is an object or an array    *)
(* with its own properties.                                                 *)

Ref(a) == [type |-> "ref", addr |-> a]
IsRef(v) == ~IsObject(v) /\ v.type = "ref"

Cell(kind, props) == [kind |-> kind, props |-> props]

\* JSON text, by the value it denotes: a primitive, or an object or array.
Tree(kind, props) == [type |-> "tree", kind |-> kind, props |-> props]
JsonText(json) == [type |-> "text", json |-> json]

\* v[k]
PropAt(h, v, k) ==
  IF IsRef(v) /\ k \in DOMAIN h[v.addr].props THEN h[v.addr].props[k]
  ELSE Undefined

\* cell.k = val
Write(h, a, k, val) == [h EXCEPT ![a].props = Assign(@, k, val)]

\* What a call leaves behind: the heap, the value returned, whether it threw.
Outcome(h, v) == [heap |-> h, value |-> v, threw |-> FALSE]
Threw(h) == [heap |-> h, value |-> Undefined, threw |-> TRUE]

\* JSON.parse builds the denoted value from fresh cells.
RECURSIVE Allocate(_, _)
RECURSIVE AllocateProps(_, _, _, _)
Allocate(h, tree) ==
  IF tree.type # "tree" THEN Outcome(h, tree)
  ELSE LET r == AllocateProps(h, tree.props, DOMAIN tree.props, EmptyObject)
       IN  Outcome(Append(r.heap, Cell(tree.kind, r.value)), Ref(Len(r.heap) + 1))

AllocateProps(h, props, keys, acc) ==
  IF keys = {} THEN Outcome(h, acc)
  ELSE LET k == CHOOSE x \in keys : TRUE
           r == Allocate(h, props[k])
       IN  AllocateProps(r.heap, props, keys \ {k}, Assign(acc, k, r.value))

\* try { chunk = JSON.parse(chunk) } catch (e) {}: only JSON text parses.
ParseChunk(h, c) == IF c.type = "text" THEN Allocate(h, c.json) ELSE Outcome(h, c)

\* Variant: only the top-level object is copied.
CloneCommitShallow(h, v) ==
  IF ~IsRef(v) THEN Outcome(h, v)
  ELSE Outcome(Append(h, h[v.addr]), Ref(Len(h) + 1))

\* cloneCommit: primitives pass through, arrays and objects are rebuilt
\* property by property, recursively.
RECURSIVE CloneProps(_, _, _, _)
RECURSIVE CloneCommit(_, _)
CloneProps(h, props, keys, acc) ==
  IF keys = {} THEN Outcome(h, acc)
  ELSE LET k == CHOOSE x \in keys : TRUE
           r == CloneCommit(h, props[k])
       IN  CloneProps(r.heap, props, keys \ {k}, Assign(acc, k, r.value))

CloneCommit(h, v) ==
  IF ~IsRef(v) THEN Outcome(h, v)
  ELSE LET r == CloneProps(h, h[v.addr].props, DOMAIN h[v.addr].props, EmptyObject)
       IN  Outcome(Append(r.heap, Cell(h[v.addr].kind, r.value)), Ref(Len(r.heap) + 1))

\* The cells a function can reach from the value it is given.
RECURSIVE Reach(_, _)
Reach(h, v) ==
  IF ~IsRef(v) THEN {}
  ELSE {v.addr} \cup UNION {Reach(h, h[v.addr].props[k]) : k \in DOMAIN h[v.addr].props}

\* get(commit, path) on the heap.
RECURSIVE getAt(_, _, _)
getAt(h, context, parts) ==
  IF parts = <<>> THEN context
  ELSE getAt(h, IF JsTruthy(context) THEN PropAt(h, context, Head(parts)) ELSE context,
             Tail(parts))

\* { ...context }
SpreadProps(h, v) == IF IsRef(v) THEN h[v.addr].props ELSE EmptyObject

\* set(commit, path, value) on the heap: every level it returns is a new object.
RECURSIVE setAt(_, _, _, _)
setAt(h, context, parts, value) ==
  IF parts = <<>> \/ Head(parts) = "" THEN Outcome(h, context)
  ELSE IF Tail(parts) = <<>>
    THEN Outcome(Append(h, Cell("object", Assign(SpreadProps(h, context), Head(parts), value))),
                 Ref(Len(h) + 1))
  ELSE IF Nullish(context) THEN Threw(h)
  ELSE LET inner == setAt(h, PropAt(h, context, Head(parts)), Tail(parts), value)
       IN  IF inner.threw THEN inner
           ELSE Outcome(Append(inner.heap,
                               Cell("object", Assign(SpreadProps(inner.heap, context),
                                                     Head(parts), inner.value))),
                        Ref(Len(inner.heap) + 1))

\* The properties a transform writes, and the value it writes.
WriteKeys == {"b", "w"}
Written == Num(2)

\* The value a field-map entry puts at its path.
Replacement == Str("replaced")

\* What an entry's function does with the value it is given: it may write a
\* property of it, and returns it or another value.
ElBehaviours == [write : WriteKeys \cup {"none"}, returns : {"same", "other"}]

\* An entry that is a plain value calls no function.
NoBehaviour == [write |-> "none", returns |-> "other"]

\* One turn of Object.entries(transform).forEach: value = get(commit, path);
\* value = el(value, path) or el; commit = set(commit, path, value)
ApplyEntry(h, c, entry, b) ==
  LET value == getAt(h, c, entry.path)
      h1 == IF entry.el = "function" /\ b.write # "none" /\ IsRef(value)
              THEN Write(h, value.addr, b.write, Written) ELSE h
      v1 == IF entry.el = "function" /\ b.returns = "same" THEN value
            ELSE Replacement
  IN  setAt(h1, c, entry.path, v1)

RECURSIVE ApplyEntries(_, _, _, _, _)
ApplyEntries(h, c, entries, behaviours, i) ==
  IF i > Len(entries) THEN Outcome(h, c)
  ELSE LET r == ApplyEntry(h, c, entries[i], behaviours[i])
       IN  IF r.threw THEN r
           ELSE ApplyEntries(r.heap, r.value, entries, behaviours, i + 1)

RECURSIVE WriteAll(_, _)
WriteAll(h, W) ==
  IF W = {} THEN h
  ELSE LET w == CHOOSE x \in W : TRUE
       IN  WriteAll(Write(h, w[1], w[2], Written), W \ {w})

\* What a transform function returns: the commit it was given, a new object,
\* a falsy value, or a truthy primitive.
FunctionReturns == {"commit", "object", "null", "false", "string"}

ReturnedValue(h, c, ret) ==
  CASE ret = "commit" -> Outcome(h, c)
    [] ret = "object" -> Outcome(Append(h, Cell("object", EmptyObject)), Ref(Len(h) + 1))
    [] ret = "null" -> Outcome(h, Null)
    [] ret = "false" -> Outcome(h, Bool(FALSE))
    [] OTHER -> Outcome(h, Str("text"))

\* The chunks a caller passes, with the caller's objects: a flat commit, one
\* with a nested object, one with an array of objects; each also as JSON
\* text; text that is no JSON; JSON text of null.
FlatCommit == Tree("object", [id |-> Num(1)])
NestedCommit == Tree("object", [id |-> Num(1), n |-> Tree("object", [b |-> Num(1)])])
ArrayCommit ==
  Tree("object", [id |-> Num(1),
                  n |-> Tree("array", [k \in {"0"} |-> Tree("object", [b |-> Num(1)])])])

CommitTrees == {FlatCommit, NestedCommit, ArrayCommit}

CallerChunks ==
  { [chunk |-> Allocate(<<>>, t).value, heap |-> Allocate(<<>>, t).heap] : t \in CommitTrees }
  \cup { [chunk |-> JsonText(t), heap |-> <<>>] : t \in CommitTrees \cup {Null} }
  \cup { [chunk |-> Str(""), heap |-> <<>>] }

EntryPaths == {<<"id">>, <<"n">>, <<"n", "b">>}

Entries == [path : EntryPaths, el : {"function", "value"}]

Transforms ==
  { [kind |-> "none", entries |-> <<>>], [kind |-> "function", entries |-> <<>>] }
  \cup UNION { { [kind |-> "map", entries |-> e] : e \in [1..n -> Entries] }
               : n \in 0..MaxEntries }

InitProcess ==
  /\ input \in CallerChunks
  /\ options \in [transform : Transforms]
  /\ heap = input.heap
  /\ chunk = input.chunk
  /\ pc = "processCommit"
  /\ requested = FALSE
  /\ pos = 0
  /\ commit = Undefined
  /\ keyCommit = Undefined
  /\ commitsGroup = <<>>
  /\ neverGenerated = TRUE
  /\ result = Undefined
  /\ savedKeyCommit = Undefined
  /\ firstRelease = TRUE
  /\ out = <<>>
  /\ hist = <<>>
  /\ renders = <<>>
  /\ failure = "none"

frame == <<input, options, requested, pos, keyCommit, commitsGroup,
           neverGenerated, savedKeyCommit, firstRelease, out, hist, renders>>

\* Decode, clone, and call the transform function: commit = await transform(...)
CallTransform ==
  /\ pc = "processCommit"
  /\ options.transform.kind = "function"
  /\ LET d == ParseChunk(heap, chunk)
         c == CloneCommit(d.heap, d.value)
     IN  \E W \in SUBSET (Reach(c.heap, c.value) \X WriteKeys), ret \in FunctionReturns :
           /\ Cardinality(W) <= MaxWrites
           /\ LET r == ReturnedValue(WriteAll(c.heap, W), c.value, ret)
              IN  /\ heap' = r.heap
                  /\ commit' = r.value
           /\ chunk' = d.value
  /\ pc' = "awaited"
  /\ UNCHANGED <<frame, result, failure>>

\* if (commit) commit.raw = chunk; return commit. Assigning a property of a
\* primitive throws in a module.
ReturnTransformed ==
  /\ pc = "awaited"
  /\ IF JsTruthy(commit) /\ ~IsRef(commit)
       THEN /\ pc' = "threw"
            /\ failure' = "TypeError"
            /\ UNCHANGED <<heap, result>>
       ELSE /\ pc' = "returned"
            /\ heap' = IF JsTruthy(commit) THEN Write(heap, commit.addr, "raw", chunk)
                       ELSE heap
            /\ result' = commit
            /\ UNCHANGED failure
  /\ UNCHANGED <<frame, chunk, commit>>

\* Decode, clone, apply the field map if there is one, commit.raw = chunk,
\* return commit.
ApplyFieldMap ==
  /\ pc = "processCommit"
  /\ options.transform.kind # "function"
  /\ LET d == ParseChunk(heap, chunk)
         c == CloneCommit(d.heap, d.value)
         entries == options.transform.entries
     IN  \E behaviours \in [1..Len(entries) -> ElBehaviours] :
           LET r == ApplyEntries(c.heap, c.value, entries, behaviours, 1)
           IN  /\ \A i \in 1..Len(entries) :
                    entries[i].el = "value" => behaviours[i] = NoBehaviour
               /\ chunk' = d.value
               /\ commit' = r.value
               /\ IF r.threw \/ ~IsRef(r.value)
                    THEN /\ pc' = "threw"
                         /\ failure' = "TypeError"
                         /\ heap' = r.heap
                         /\ UNCHANGED result
                    ELSE /\ pc' = "returned"
                         /\ heap' = Write(r.heap, r.value.addr, "raw", d.value)
                         /\ result' = r.value
                         /\ UNCHANGED failure
  /\ UNCHANGED frame

NextProcess == CallTransform \/ ReturnTransformed \/ ApplyFieldMap

SpecProcess == InitProcess /\ [][NextProcess]_vars

\* The JSON value a heap value denotes.
RECURSIVE TreeOf(_, _)
TreeOf(h, v) ==
  IF ~IsRef(v) THEN v
  ELSE Tree(h[v.addr].kind,
            [k \in DOMAIN h[v.addr].props |-> TreeOf(h, h[v.addr].props[k])])

\* C17: while processCommit runs and after it, the objects of the caller's
\* chunk are as the caller passed them; a truthy result is an object whose
\* raw is the decoded chunk (the value the JSON text denotes when the chunk
\* was JSON text, the caller's chunk itself otherwise), for a function
\* transform, a field map and no transform; a falsy result comes only from
\* a function transform and is the value that function returned.
C17_CloneAndRaw ==
  /\ \A a \in 1..Len(input.heap) : heap[a] = input.heap[a]
  /\ pc = "returned" =>
       IF JsTruthy(result)
         THEN /\ IsRef(result)
              /\ PropAt(heap, result, "raw") = chunk
              /\ IF input.chunk.type = "text"
                   THEN TreeOf(heap, chunk) = input.chunk.json
                   ELSE chunk = input.chunk
         ELSE /\ options.transform.kind = "function"
              /\ result = commit
              /\ ~IsRef(result)

\* A function transform wrote into the clone of a chunk with nested objects
\* and its truthy result was returned; so was a field-map result.
C17_Witness ==
  /\ pc = "returned"
  /\ IsRef(result)
  /\ Len(input.heap) >= 2
  /\ options.transform.kind = "function"
  /\ \E a \in Len(input.heap) + 1..Len(heap) : PropAt(heap, Ref(a), "w") = Written

====
